---- MODULE Spec2Model ----
(***************************************************************************)
(* zulip-client: the sync command (cli/sync.ts), the Zulip API client      *)
(* (api/client.ts) and the SQLite store (storage/database.ts).             *)
(*                                                                         *)
(* The store is the five tables of SCHEMA.  Every database statement and   *)
(* every db.transaction(...) call commits on its own, so each is one step  *)
(* of the model; every awaited network request is one step.  The process   *)
(* running a command can be killed between any two steps, and the store    *)
(* keeps what was committed.                                               *)
(***************************************************************************)
EXTENDS Integers, Sequences, FiniteSets

(* ---------------------------- bounds ---------------------------------- *)

\* Remote message identifiers are 1..MaxMsgId, handed out in increasing order.
MaxMsgId == 3

\* Number of commands started in one behaviour (also the range of the clock
\* that stands for new Date()).
MaxRuns == 2

\* Longest batch insertMessages is given on its own.
MaxBatch == 3

\* Number of messages that get edited on the service in one behaviour.
MaxEdits == 1

\* Stand-in for batchSize (1000 in the client): the page size of one request.
batchSize == 2

(* ------------------------ configuration -------------------------------- *)

\* listSites(): the keys of the credentials file, in file order.
listSites == <<"leanprover", "lean-fro">>

\* getDefaultSite()
getDefaultSite == "leanprover"

SiteNames == {listSites[i] : i \in 1..Len(listSites)}

\* The conversations (stream id, topic name) of the remote sites, in
\* (stream id, topic name) order.
ConvList == << [stream_id |-> 1, topic |-> "t"], [stream_id |-> 2, topic |-> "t"] >>

Convs == {ConvList[i] : i \in 1..Len(ConvList)}

\* The conversations people post to: both on the first site, one on the other.
PostTargets ==
    {<<listSites[1], c>> : c \in Convs} \cup {<<listSites[2], ConvList[1]>>}

\* subscriptions of register(): the name of every stream the user is in.
SubscriptionName(streamId) == IF streamId = 1 THEN "general" ELSE "lean4"

\* SQL NULL in topics.last_message_id and sites.last_sync.
NULL == 0

\* anchor: 'oldest' (the server reads it as "before every message").
OLDEST == 0

(* ----------------------------- state ----------------------------------- *)

VARIABLES
    remote,            \* remote[site][conv]: ids of the messages the service holds
    nextMsgId,         \* next identifier the service hands out
    edited,            \* ids of the messages whose content was edited on the service
    sites,             \* table sites:    rows [id, name, last_sync]
    streams,           \* table streams:  rows [id, site_id, stream_id, name]
    topics,            \* table topics:   rows [id, stream_id, name, last_message_id]
    messages,          \* table messages: rows [id, topic_id, message_id, content]
    unread_messages,   \* table unread_messages: rows [site_id, message_id, stream_id, stream_name, topic_name]
    clock,             \* commands started so far; the time written to last_sync
    cmd,               \* "idle" | "sync"
    pc,                \* position inside syncSite
    exitCode,          \* "none" | "ok" | "error" | "killed": how the last command ended
    queue,             \* syncCommand: sites not yet finished, current site first
    unreadMsgs,        \* syncSite: unreadMsgs.streams returned by register()
    siteId,            \* syncSite: siteId
    unreadTopics,      \* syncSite: topics still to visit, current topic first
    streamDbId,        \* syncSite: streamDbId
    topicDbId,         \* syncSite: topicDbId
    lastMessageId,     \* syncSite: lastMessageId
    anchor,            \* getTopicMessages: anchor
    allMessages,       \* getTopicMessages: allMessages, then syncSite: messages (their ids)
    allEdited,         \* the ids among allMessages that were fetched with edited content
    inserted,          \* syncSite: inserted (of the last insertMessages call)
    totalNewMessages,  \* syncSite: totalNewMessages
    \* history, written by the actions and read by no guard:
    prevMarkers,       \* the site's unread rows when the running pass cleared them
    sawPost,           \* the site got a message since register() of the running pass returned
    prevPass,          \* {[site, unread]} of the pass that completed last, while the
                       \* site has got no message since that pass's register() and
                       \* no command has ended abnormally; {} otherwise
    requests,          \* requests the running getTopicMessages call has made
    failedAt,          \* position at which the last command threw, "none" otherwise
    passStart,         \* the site's conversations in the store when register() of
                       \* the running pass returned
    visited,           \* conversations the running pass has sent a request for
    resume             \* {[site, unread, origin]} of a pass killed between two
                       \* fetch or merge steps, while the site has got no message
                       \* since its register() and only passes of the same site
                       \* and unread state have run; origin is its passStart

storeVars == <<sites, streams, topics, messages, unread_messages>>
remoteVars == <<remote, nextMsgId, edited>>
localVars == <<unreadMsgs, siteId, unreadTopics, streamDbId, topicDbId,
               lastMessageId, anchor, allMessages, allEdited, inserted, totalNewMessages>>
histVars == <<prevMarkers, sawPost, prevPass, requests, failedAt, passStart, visited,
              resume>>
vars == <<remote, nextMsgId, edited, allEdited, sites, streams, topics, messages, unread_messages,
          clock, cmd, pc, exitCode, queue, unreadMsgs, siteId, unreadTopics,
          streamDbId, topicDbId, lastMessageId, anchor, allMessages, inserted,
          totalNewMessages, prevMarkers, sawPost, prevPass, requests, failedAt,
          passStart, visited, resume>>

(* --------------------------- helpers ----------------------------------- *)

Max(S) == CHOOSE x \in S : \A y \in S : y <= x

Min(S) == CHOOSE x \in S : \A y \in S : x <= y

RECURSIVE SortedSeq(_)
\* The elements of a finite set of integers in increasing order.
SortedSeq(S) == IF S = {} THEN <<>> ELSE <<Min(S)>> \o SortedSeq(S \ {Min(S)})

SeqRange(s) == {s[i] : i \in 1..Len(s)}

\* lastInsertRowid of an AUTOINCREMENT table with the given rows.
NextRowId(rows) == IF rows = {} THEN 1 ELSE Max({r.id : r \in rows}) + 1

(* ------------------------ remote service ------------------------------- *)

\* The n smallest elements of a set of integers.
FirstN(S, n) == {x \in S : Cardinality({y \in S : y < x}) < n}

\* GET /messages with num_before = 0: the anchor message itself when the
\* conversation holds it, and the first numAfter messages after the anchor.
GetMessagesResponse(site, conv, anc, numAfter) ==
    LET ids   == remote[site][conv]
        after == {m \in ids : m > anc}
        page  == FirstN(after, numAfter)
    IN  [messages     |-> SortedSeq((ids \cap {anc}) \cup page),
         found_newest |-> page = after]

\* All message ids the service holds for a site.
RemoteIds(site) == UNION {remote[site][c] : c \in Convs}

\* unread_msgs.streams of a register() response in which exactly the
\* messages U are unread: one entry per conversation that has unread
\* messages.  With twice = TRUE the response is malformed: every entry lists
\* its first identifier two times.
UnreadStreams(site, U, twice) ==
    LET ids(c)   == SortedSeq(remote[site][c] \cap U)
        entry(c) == [stream_id |-> c.stream_id, topic |-> c.topic,
                     unread_message_ids |->
                         IF twice /\ ids(c) # <<>> THEN <<Head(ids(c))>> \o ids(c)
                         ELSE ids(c)]
        all == [i \in 1..Len(ConvList) |-> entry(ConvList[i])]
    IN  SelectSeq(all, LAMBDA e : Len(e.unread_message_ids) > 0)

(* --------------------------- the store --------------------------------- *)

\* SELECT id FROM sites WHERE name = ?
SiteRows(name) == {r \in sites : r.name = name}

\* getOrCreateSite without its SELECT: a row is inserted at every call.
getOrCreateSite_rows_Insert(name) ==
    sites \cup {[id |-> NextRowId(sites), name |-> name, last_sync |-> NULL]}

\* getOrCreateSite: the table after the call.
getOrCreateSite_rows(name) ==
    IF SiteRows(name) # {} THEN sites
    ELSE sites \cup {[id |-> NextRowId(sites), name |-> name, last_sync |-> NULL]}

\* getOrCreateSite: the id returned.
getOrCreateSite(name) ==
    IF SiteRows(name) # {} THEN (CHOOSE r \in SiteRows(name) : TRUE).id
    ELSE NextRowId(sites)

\* updateSiteLastSync without its WHERE clause: every site is stamped.
updateSiteLastSync_All(sId, now) == {[r EXCEPT !.last_sync = now] : r \in sites}

\* updateSiteLastSync: the table after the call.
updateSiteLastSync(sId, now) ==
    {IF r.id = sId THEN [r EXCEPT !.last_sync = now] ELSE r : r \in sites}

\* SELECT id FROM streams WHERE site_id = ? AND stream_id = ?
StreamRows(sId, streamId) ==
    {r \in streams : r.site_id = sId /\ r.stream_id = streamId}

\* getOrCreateStream: the table after the call.
getOrCreateStream_rows(sId, streamId, name) ==
    IF StreamRows(sId, streamId) # {}
    THEN LET existing == CHOOSE r \in StreamRows(sId, streamId) : TRUE
         IN  {IF r.id = existing.id THEN [r EXCEPT !.name = name] ELSE r : r \in streams}
    ELSE streams \cup {[id |-> NextRowId(streams), site_id |-> sId,
                        stream_id |-> streamId, name |-> name]}

\* getOrCreateStream: the id returned.
getOrCreateStream(sId, streamId) ==
    IF StreamRows(sId, streamId) # {}
    THEN (CHOOSE r \in StreamRows(sId, streamId) : TRUE).id
    ELSE NextRowId(streams)

\* SELECT id FROM topics WHERE stream_id = ? AND name = ?
TopicRows(sDbId, name) == {r \in topics : r.stream_id = sDbId /\ r.name = name}

\* getOrCreateTopic without its SELECT: a row is inserted at every call.
getOrCreateTopic_rows_Insert(sDbId, name) ==
    topics \cup {[id |-> NextRowId(topics), stream_id |-> sDbId,
                  name |-> name, last_message_id |-> NULL]}

\* getOrCreateTopic: the table after the call.
getOrCreateTopic_rows(sDbId, name) ==
    IF TopicRows(sDbId, name) # {} THEN topics
    ELSE topics \cup {[id |-> NextRowId(topics), stream_id |-> sDbId,
                       name |-> name, last_message_id |-> NULL]}

\* getOrCreateTopic: the id returned.
getOrCreateTopic(sDbId, name) ==
    IF TopicRows(sDbId, name) # {}
    THEN (CHOOSE r \in TopicRows(sDbId, name) : TRUE).id
    ELSE NextRowId(topics)

\* getTopicLastMessageId, read from the given topics table.
getTopicLastMessageId(rows, tId) ==
    IF \E r \in rows : r.id = tId
    THEN (CHOOSE r \in rows : r.id = tId).last_message_id
    ELSE NULL

\* maxMessageId taking the first message of the batch instead of the largest.
maxMessageId_First(msgs) == msgs[1]

\* maxMessageId with Math.min for Math.max.
maxMessageId_Min(msgs) == Min(SeqRange(msgs))

\* Math.max(...messages.map(m => m.id))
maxMessageId(msgs) == Max(SeqRange(msgs))

\* updateTopicLastMessageId whose UPDATE matches no row.
updateTopicLastMessageId_NoRow(tId, messageId) == topics

\* updateTopicLastMessageId: the table after the call.
updateTopicLastMessageId(tId, messageId) ==
    {IF r.id = tId THEN [r EXCEPT !.last_message_id = messageId] ELSE r : r \in topics}

\* InsertOrIgnore without the UNIQUE(topic_id, message_id) constraint.
InsertOrIgnore_NoUnique(rows, tId, msg) ==
    rows \cup {[id |-> NextRowId(rows), topic_id |-> tId, message_id |-> msg.id,
                content |-> msg.content]}

\* An upsert instead: the row of a message that is stored takes the content
\* of the fetched version.
InsertOrIgnore_Upsert(rows, tId, msg) ==
    IF \E r \in rows : r.topic_id = tId /\ r.message_id = msg.id
    THEN {IF r.topic_id = tId /\ r.message_id = msg.id
          THEN [r EXCEPT !.content = msg.content] ELSE r : r \in rows}
    ELSE rows \cup {[id |-> NextRowId(rows), topic_id |-> tId, message_id |-> msg.id,
                     content |-> msg.content]}

\* One INSERT OR IGNORE INTO messages: a row that would break
\* UNIQUE(topic_id, message_id) is skipped.
InsertOrIgnore(rows, tId, msg) ==
    IF \E r \in rows : r.topic_id = tId /\ r.message_id = msg.id
    THEN rows
    ELSE rows \cup {[id |-> NextRowId(rows), topic_id |-> tId, message_id |-> msg.id,
                     content |-> msg.content]}

\* insertMany that runs no statement: the batch is dropped without an error.
insertMany_Nothing(rows, tId, msgs, count) == [rows |-> rows, inserted |-> count]

RECURSIVE insertMany_CountAll(_, _, _, _)
\* insertMany counting every statement run, whether it changed a row or not.
insertMany_CountAll(rows, tId, msgs, count) ==
    IF msgs = <<>> THEN [rows |-> rows, inserted |-> count]
    ELSE insertMany_CountAll(InsertOrIgnore(rows, tId, Head(msgs)), tId, Tail(msgs),
                             count + 1)

RECURSIVE insertMany(_, _, _, _)
\* The transaction of insertMessages: [rows, inserted] after the batch;
\* count is the value of `inserted` so far.
insertMany(rows, tId, msgs, count) ==
    IF msgs = <<>> THEN [rows |-> rows, inserted |-> count]
    ELSE LET after == InsertOrIgnore(rows, tId, Head(msgs))
         IN  insertMany(after, tId, Tail(msgs),
                        IF after # rows THEN count + 1 ELSE count)

\* insertMessages: [rows, inserted].
insertMessages(tId, msgs) == insertMany(messages, tId, msgs, 0)

\* clearUnreadMessages with the WHERE clause inverted: the rows of the other
\* sites are deleted and the site's own rows stay.
clearUnreadMessages_Others(sId) == {r \in unread_messages : r.site_id = sId}

\* clearUnreadMessages without its WHERE clause: the rows of every site go.
clearUnreadMessages_Everything(sId) == {}

\* clearUnreadMessages: the table after the call.
clearUnreadMessages(sId) == {r \in unread_messages : r.site_id # sId}

RECURSIVE UnreadItems(_, _)
\* The rows insertUnreadMessages writes, in the order it writes them.
UnreadItems(sId, unreads) ==
    IF unreads = <<>> THEN <<>>
    ELSE LET item == Head(unreads)
             streamName == SubscriptionName(item.stream_id)
             row(m) == [site_id |-> sId, message_id |-> m,
                        stream_id |-> item.stream_id, stream_name |-> streamName,
                        topic_name |-> item.topic]
         IN  [i \in 1..Len(item.unread_message_ids) |-> row(item.unread_message_ids[i])]
             \o UnreadItems(sId, Tail(unreads))

RECURSIVE insertUnreadMany(_, _)
\* The transaction of insertUnreadMessages: [ok, rows]; a row that breaks
\* UNIQUE(site_id, message_id) makes the statement throw.
insertUnreadMany(rows, items) ==
    IF items = <<>> THEN [ok |-> TRUE, rows |-> rows]
    ELSE IF \E r \in rows : r.site_id = Head(items).site_id
                            /\ r.message_id = Head(items).message_id
         THEN [ok |-> FALSE, rows |-> rows]
         ELSE insertUnreadMany(rows \cup {Head(items)}, Tail(items))

\* insertUnreadMessages without db.transaction: the rows written before the
\* statement that throws stay.
insertUnreadMessages_NoRollback(sId, unreads) ==
    insertUnreadMany(unread_messages, UnreadItems(sId, unreads))

\* insertUnreadMessages: [ok, rows]; when not ok the transaction is rolled
\* back and the table is as before.
insertUnreadMessages(sId, unreads) ==
    LET r == insertUnreadMany(unread_messages, UnreadItems(sId, unreads))
    IN  IF r.ok THEN r ELSE [ok |-> FALSE, rows |-> unread_messages]

\* getUnreadTopics that lists every conversation of the site, marked or not.
getUnreadTopics_All(rows, sId) ==
    [i \in 1..Len(ConvList) |->
        [streamId |-> ConvList[i].stream_id,
         streamName |-> SubscriptionName(ConvList[i].stream_id),
         topicName |-> ConvList[i].topic,
         messageIds |-> {r.message_id : r \in {x \in rows :
                            x.site_id = sId /\ x.stream_id = ConvList[i].stream_id
                            /\ x.topic_name = ConvList[i].topic}}]]

\* getUnreadTopics, read from the given unread table: one entry per
\* (stream_id, stream_name, topic_name) group of the site.
getUnreadTopics(rows, sId) ==
    LET group(c) == {r \in rows : r.site_id = sId /\ r.stream_id = c.stream_id
                                  /\ r.topic_name = c.topic}
        entry(c) == [streamId |-> c.stream_id,
                     streamName |-> SubscriptionName(c.stream_id),
                     topicName |-> c.topic,
                     messageIds |-> {r.message_id : r \in group(c)}]
        all == [i \in 1..Len(ConvList) |-> entry(ConvList[i])]
    IN  SelectSeq(all, LAMBDA e : e.messageIds # {})

(* ------------------------- unread summary ------------------------------ *)

\* The stream and topic names of the model in the order SQLite compares
\* text (BINARY collation).
NameOrder == <<"general", "lean4", "t", "u">>

NameRank(name) == CHOOSE i \in 1..Len(NameOrder) : NameOrder[i] = name

\* ORDER BY stream_name, topic_name (groups that agree on both names are
\* taken in stream id order).
GroupBefore(g, h) ==
    \/ NameRank(g.stream_name) < NameRank(h.stream_name)
    \/ /\ g.stream_name = h.stream_name
       /\ NameRank(g.topic_name) < NameRank(h.topic_name)
    \/ /\ g.stream_name = h.stream_name /\ g.topic_name = h.topic_name
       /\ g.stream_id < h.stream_id

RECURSIVE SortedGroups(_)
SortedGroups(G) ==
    IF G = {} THEN <<>>
    ELSE LET g == CHOOSE x \in G : \A h \in G \ {x} : GroupBefore(x, h)
         IN  <<g>> \o SortedGroups(G \ {g})

\* SELECT stream_name, stream_id, topic_name, COUNT(*) as count
\* FROM unread_messages WHERE site_id = ?
\* GROUP BY stream_name, stream_id, topic_name ORDER BY stream_name, topic_name
SummaryRows(sId) ==
    LET rows == {r \in unread_messages : r.site_id = sId}
        key(r) == [stream_name |-> r.stream_name, stream_id |-> r.stream_id,
                   topic_name |-> r.topic_name]
        groups == SortedGroups({key(r) : r \in rows})
    IN  [i \in 1..Len(groups) |->
            [stream_name |-> groups[i].stream_name, stream_id |-> groups[i].stream_id,
             topic_name |-> groups[i].topic_name,
             count |-> Cardinality({r \in rows : key(r) = groups[i]})]]

\* One turn of the loop of getUnreadSummary with totalCount += 1: the total
\* of a stream counts its topics.
AddSummaryRow_PerTopic(summaries, row) ==
    LET topic == [topicName |-> row.topic_name, count |-> row.count]
    IN  IF \E k \in 1..Len(summaries) : summaries[k].streamName = row.stream_name
        THEN [k \in 1..Len(summaries) |->
                 IF summaries[k].streamName = row.stream_name
                 THEN [summaries[k] EXCEPT !.topics = Append(@, topic),
                                           !.totalCount = @ + 1]
                 ELSE summaries[k]]
        ELSE Append(summaries, [streamName |-> row.stream_name, streamId |-> row.stream_id,
                                topics |-> <<topic>>, totalCount |-> 1])

\* One turn of the loop of getUnreadSummary: the summary of the row's stream
\* name is looked up in summaryMap, created when there is none, and gets the
\* topic and its count.
AddSummaryRow(summaries, row) ==
    LET topic == [topicName |-> row.topic_name, count |-> row.count]
    IN  IF \E k \in 1..Len(summaries) : summaries[k].streamName = row.stream_name
        THEN [k \in 1..Len(summaries) |->
                 IF summaries[k].streamName = row.stream_name
                 THEN [summaries[k] EXCEPT !.topics = Append(@, topic),
                                           !.totalCount = @ + row.count]
                 ELSE summaries[k]]
        ELSE Append(summaries, [streamName |-> row.stream_name, streamId |-> row.stream_id,
                                topics |-> <<topic>>, totalCount |-> row.count])

RECURSIVE SummaryOf(_, _)
\* The loop of getUnreadSummary over the rows, from the summaries so far.
SummaryOf(summaries, rows) ==
    IF rows = <<>> THEN summaries
    ELSE SummaryOf(AddSummaryRow(summaries, Head(rows)), Tail(rows))

\* getUnreadSummary(siteId): Array.from(summaryMap.values())
getUnreadSummary(sId) == SummaryOf(<<>>, SummaryRows(sId))

\* getTotalUnreadCount(siteId): SELECT COUNT(*) ... WHERE site_id = ?
getTotalUnreadCount(sId) == Cardinality({r \in unread_messages : r.site_id = sId})

(* ----------------------- views of the store ---------------------------- *)

\* The topics row a message row belongs to, as <<stream row id, topic name>>.
ConvOfTopic(tId) ==
    {<<t.stream_id, t.name>> : t \in {x \in topics : x.id = tId}}

\* The remote identifiers stored for a topics row.
StoredIds(tId) == {m.message_id : m \in {x \in messages : x.topic_id = tId}}

\* The topics rows of a conversation of a site (join topics, streams, sites).
TopicIdsOf(site, conv) ==
    {t.id : t \in {x \in topics :
        \E st \in streams, s \in sites :
            /\ s.name = site /\ st.site_id = s.id
            /\ st.stream_id = conv.stream_id
            /\ x.stream_id = st.id /\ x.name = conv.topic}}

\* What the store holds of a conversation of a site: the stored identifiers
\* and the watermark (NULL without a topics row).
ConvState(site, conv) ==
    LET tIds == TopicIdsOf(site, conv)
    IN  [ids |-> UNION {StoredIds(tId) : tId \in tIds},
         w   |-> IF tIds = {} THEN NULL
                 ELSE Max({getTopicLastMessageId(topics, tId) : tId \in tIds})]

\* passStart outside a pass.
NoOrigin == [c \in Convs |-> [ids |-> {}, w |-> NULL]]

(* ------------------------- initial state ------------------------------- *)

\* A fresh database (SCHEMA just executed), a remote service without
\* messages, no command running.
Init ==
    /\ remote = [s \in SiteNames |-> [c \in Convs |-> {}]]
    /\ nextMsgId = 1
    /\ edited = {}
    /\ allEdited = {}
    /\ sites = {}
    /\ streams = {}
    /\ topics = {}
    /\ messages = {}
    /\ unread_messages = {}
    /\ clock = 0
    /\ cmd = "idle"
    /\ pc = "done"
    /\ exitCode = "none"
    /\ queue = <<>>
    /\ unreadMsgs = <<>>
    /\ siteId = 0
    /\ unreadTopics = <<>>
    /\ streamDbId = 0
    /\ topicDbId = 0
    /\ lastMessageId = NULL
    /\ anchor = OLDEST
    /\ allMessages = <<>>
    /\ inserted = 0
    /\ totalNewMessages = 0
    /\ prevMarkers = {}
    /\ sawPost = FALSE
    /\ prevPass = {}
    /\ requests = 0
    /\ failedAt = "none"
    /\ passStart = NoOrigin
    /\ visited = {}
    /\ resume = {}

(* --------------------------- the remote -------------------------------- *)

\* Somebody posts a message to a conversation of a site.
RemotePost(site, conv) ==
    /\ nextMsgId <= MaxMsgId
    /\ remote' = [remote EXCEPT ![site][conv] = @ \cup {nextMsgId}]
    /\ nextMsgId' = nextMsgId + 1
    /\ UNCHANGED edited
    /\ sawPost' = (sawPost \/ (cmd = "sync" /\ pc # "register" /\ Head(queue) = site))
    /\ prevPass' = {p \in prevPass : p.site # site}
    /\ resume' = {r \in resume : r.site # site}
    /\ UNCHANGED <<storeVars, clock, cmd, pc, exitCode, queue, localVars, prevMarkers,
                   requests, failedAt, passStart, visited>>

\* Somebody edits a message on the service: its content changes, its
\* identifier stays.
RemoteEdit(m) ==
    /\ m < nextMsgId
    /\ m \notin edited
    /\ Cardinality(edited) < MaxEdits
    /\ edited' = edited \cup {m}
    /\ UNCHANGED <<remote, nextMsgId, storeVars, clock, cmd, pc, exitCode, queue,
                   localVars, histVars>>

(* ------------------------ the sync command ----------------------------- *)

\* The locals of syncSite are gone when it is left.
ResetLocals ==
    /\ unreadMsgs' = <<>>
    /\ siteId' = 0
    /\ unreadTopics' = <<>>
    /\ streamDbId' = 0
    /\ topicDbId' = 0
    /\ lastMessageId' = NULL
    /\ anchor' = OLDEST
    /\ allMessages' = <<>>
    /\ allEdited' = {}
    /\ inserted' = 0
    /\ totalNewMessages' = 0
    /\ prevMarkers' = {}
    /\ sawPost' = FALSE
    /\ requests' = 0
    /\ passStart' = NoOrigin
    /\ visited' = {}

\* The process ends: the command's action handler exits with the code.
Exit(code) ==
    /\ cmd' = "idle"
    /\ pc' = "done"
    /\ exitCode' = code
    /\ queue' = <<>>
    /\ ResetLocals

\* An error thrown inside syncSite is caught by nobody before the action
\* handler of the sync command: console.error, process.exit(1).
Throw ==
    /\ Exit("error")
    /\ prevPass' = {}
    /\ failedAt' = pc
    /\ resume' = {}

\* `zulip-client sync`: syncCommand picks the sites and enters syncSite for
\* the first of them.
StartSync(sitesArg) ==
    /\ cmd = "idle"
    /\ clock < MaxRuns
    /\ clock' = clock + 1
    /\ cmd' = "sync"
    /\ queue' = sitesArg
    /\ pc' = "register"
    /\ exitCode' = "none"
    /\ ResetLocals
    /\ failedAt' = "none"
    /\ UNCHANGED <<remoteVars, storeVars, prevPass, resume>>

\* await client.register() returns the unread state: some of the site's
\* messages are unread.
Register ==
    /\ cmd = "sync" /\ pc = "register"
    /\ \E U \in SUBSET RemoteIds(Head(queue)), twice \in BOOLEAN :
           unreadMsgs' = UnreadStreams(Head(queue), U, twice)
    /\ sawPost' = FALSE
    /\ passStart' = [c \in Convs |-> ConvState(Head(queue), c)]
    /\ resume' = {r \in resume : r.site = Head(queue) /\ r.unread = unreadMsgs'}
    /\ pc' = "getOrCreateSite"
    /\ UNCHANGED <<remoteVars, storeVars, clock, cmd, exitCode, queue, siteId,
                   unreadTopics, streamDbId, topicDbId, lastMessageId, anchor,
                   allMessages, allEdited, inserted, totalNewMessages, prevMarkers, prevPass,
                   requests, failedAt, visited>>

\* register() called after clearUnreadMessages: when it throws the markers
\* are gone.
RegisterFail_Cleared ==
    /\ cmd = "sync" /\ pc = "register"
    /\ Throw
    /\ unread_messages' = {}
    /\ UNCHANGED <<remoteVars, sites, streams, topics, messages, clock>>

\* await client.register() throws (response not ok, or result not success).
RegisterFail ==
    /\ cmd = "sync" /\ pc = "register"
    /\ Throw
    /\ UNCHANGED <<remoteVars, storeVars, clock>>

\* const siteId = getOrCreateSite(siteName, client.siteUrl)
GetOrCreateSite ==
    /\ cmd = "sync" /\ pc = "getOrCreateSite"
    /\ sites' = getOrCreateSite_rows(Head(queue))
    /\ siteId' = getOrCreateSite(Head(queue))
    /\ pc' = "clearUnreadMessages"
    /\ UNCHANGED <<remoteVars, streams, topics, messages, unread_messages, clock,
                   cmd, exitCode, queue, unreadMsgs, unreadTopics, streamDbId,
                   topicDbId, lastMessageId, anchor, allMessages, allEdited, inserted,
                   totalNewMessages, histVars>>

\* clearUnreadMessages(siteId)
ClearUnreadMessages ==
    /\ cmd = "sync" /\ pc = "clearUnreadMessages"
    /\ unread_messages' = clearUnreadMessages(siteId)
    /\ prevMarkers' = {r \in unread_messages : r.site_id = siteId}
    /\ pc' = "insertUnreadMessages"
    /\ UNCHANGED <<remoteVars, sites, streams, topics, messages, clock, cmd,
                   exitCode, queue, localVars, sawPost, prevPass, requests,
                   failedAt, passStart, visited, resume>>

\* After a topic the for loop of syncSite takes the next one, or ends.
NextTopic ==
    /\ unreadTopics' = Tail(unreadTopics)
    /\ pc' = IF Len(unreadTopics) = 1 THEN "updateSiteLastSync" ELSE "getOrCreateStream"

\* InsertUnreadMessages whose early return forgets updateSiteLastSync: with
\* no unread topic syncSite returns at once.
InsertUnreadMessages_Return ==
    /\ cmd = "sync" /\ pc = "insertUnreadMessages"
    /\ LET r == insertUnreadMessages(siteId, unreadMsgs)
           plan == getUnreadTopics(r.rows, siteId)
       IN  /\ r.ok
           /\ unread_messages' = r.rows
           /\ IF Len(plan) > 0
              THEN /\ unreadTopics' = plan
                   /\ pc' = "getOrCreateStream"
                   /\ UNCHANGED <<cmd, exitCode, queue, unreadMsgs, siteId, streamDbId,
                                  topicDbId, lastMessageId, anchor, allMessages, allEdited,
                                  inserted, totalNewMessages, histVars>>
              ELSE /\ UNCHANGED <<failedAt, prevPass, resume>>
                   /\ IF Len(queue) = 1
                      THEN Exit("ok")
                      ELSE /\ queue' = Tail(queue)
                           /\ pc' = "register"
                           /\ ResetLocals
                           /\ UNCHANGED <<cmd, exitCode>>
    /\ UNCHANGED <<remoteVars, sites, streams, topics, messages, clock>>

\* insertUnreadMessages(siteId, unreadMsgs.streams, streamMap), then
\* getUnreadTopics(siteId); with no unread topic the pass goes straight to
\* updateSiteLastSync.
InsertUnreadMessages ==
    /\ cmd = "sync" /\ pc = "insertUnreadMessages"
    /\ LET r == insertUnreadMessages(siteId, unreadMsgs)
           plan == getUnreadTopics(r.rows, siteId)
       IN  /\ r.ok
           /\ unread_messages' = r.rows
           /\ unreadTopics' = plan
           /\ pc' = IF Len(plan) = 0 THEN "updateSiteLastSync" ELSE "getOrCreateStream"
    /\ UNCHANGED <<remoteVars, sites, streams, topics, messages, clock, cmd,
                   exitCode, queue, unreadMsgs, siteId, streamDbId, topicDbId,
                   lastMessageId, anchor, allMessages, allEdited, inserted, totalNewMessages,
                   histVars>>

\* insertUnreadMessages throws on a UNIQUE(site_id, message_id) violation;
\* the transaction is rolled back.
InsertUnreadMessagesFail ==
    /\ cmd = "sync" /\ pc = "insertUnreadMessages"
    /\ ~insertUnreadMessages(siteId, unreadMsgs).ok
    /\ unread_messages' = insertUnreadMessages(siteId, unreadMsgs).rows
    /\ Throw
    /\ UNCHANGED <<remoteVars, sites, streams, topics, messages, clock>>

\* const streamDbId = getOrCreateStream(siteId, topic.streamId, streamName)
GetOrCreateStream ==
    /\ cmd = "sync" /\ pc = "getOrCreateStream"
    /\ LET topic == Head(unreadTopics)
       IN  /\ streams' = getOrCreateStream_rows(siteId, topic.streamId, topic.streamName)
           /\ streamDbId' = getOrCreateStream(siteId, topic.streamId)
    /\ pc' = "getOrCreateTopic"
    /\ UNCHANGED <<remoteVars, sites, topics, messages, unread_messages, clock,
                   cmd, exitCode, queue, unreadMsgs, siteId, unreadTopics,
                   topicDbId, lastMessageId, anchor, allMessages, allEdited, inserted,
                   totalNewMessages, histVars>>

\* FirstAnchor that forgets afterMessageId: every fetch starts at 'oldest'.
FirstAnchor_Oldest(last) == OLDEST

\* let anchor = options.afterMessageId ? options.afterMessageId + 1 : 'oldest'
\* with afterMessageId: lastMessageId || undefined
FirstAnchor(last) == IF last # NULL THEN last + 1 ELSE OLDEST

\* const topicDbId = getOrCreateTopic(streamDbId, topicName);
\* const lastMessageId = getTopicLastMessageId(topicDbId);
\* getTopicMessages up to its first request: the anchor is chosen.
GetOrCreateTopic ==
    /\ cmd = "sync" /\ pc = "getOrCreateTopic"
    /\ LET topic == Head(unreadTopics)
           tId   == getOrCreateTopic(streamDbId, topic.topicName)
           rows  == getOrCreateTopic_rows(streamDbId, topic.topicName)
           last  == getTopicLastMessageId(rows, tId)
       IN  /\ topics' = rows
           /\ topicDbId' = tId
           /\ lastMessageId' = last
           /\ anchor' = FirstAnchor(last)
    /\ allMessages' = <<>>
    /\ allEdited' = {}
    /\ requests' = 0
    /\ pc' = "request"
    /\ UNCHANGED <<remoteVars, sites, streams, messages, unread_messages, clock,
                   cmd, exitCode, queue, unreadMsgs, siteId, unreadTopics,
                   streamDbId, inserted, totalNewMessages, prevMarkers, sawPost,
                   prevPass, failedAt, passStart, visited, resume>>

\* The conversation the current topic names on the remote site.
CurrentConv ==
    [stream_id |-> Head(unreadTopics).streamId, topic |-> Head(unreadTopics).topicName]

\* NewMessages without the filter: the anchor message stays in the page.
NewMessages_Unfiltered(response, anc) == response.messages

\* newMessages: the anchor message is filtered out when the anchor is an id.
NewMessages(response, anc) ==
    IF anc # OLDEST THEN SelectSeq(response.messages, LAMBDA m : m > anc)
    ELSE response.messages

\* LoopEnds with the first break only: an empty page ends the loop.
LoopEnds_EmptyOnly(response, newMessages) == Len(newMessages) = 0

\* LoopEnds that does not read found_newest.
LoopEnds_CountOnly(response, newMessages) ==
    \/ Len(newMessages) = 0
    \/ Len(newMessages) < batchSize

\* LoopEnds with <= for <: a full page ends the loop.
LoopEnds_FullPage(response, newMessages) ==
    \/ Len(newMessages) = 0
    \/ response.found_newest
    \/ Len(newMessages) <= batchSize

\* The two break statements of the while loop of getTopicMessages.
LoopEnds(response, newMessages) ==
    \/ Len(newMessages) = 0
    \/ response.found_newest
    \/ Len(newMessages) < batchSize

\* NextAnchor taking the first message of the page instead of the last.
NextAnchor_First(newMessages) == newMessages[1]

\* anchor = newMessages[newMessages.length - 1].id
NextAnchor(newMessages) == newMessages[Len(newMessages)]

\* One turn of the while loop of getTopicMessages: a request that succeeds.
\* When the loop ends getTopicMessages returns; syncSite stores a non-empty
\* result and otherwise moves to the next topic.
FetchPage ==
    /\ cmd = "sync" /\ pc = "request"
    /\ LET response    == GetMessagesResponse(Head(queue), CurrentConv, anchor, batchSize)
           newMessages == NewMessages(response, anchor)
           collected   == allMessages \o newMessages
           last        == LoopEnds(response, newMessages)
       IN  /\ allMessages' = collected
           /\ allEdited' = allEdited \cup (SeqRange(newMessages) \cap edited)
           /\ anchor' = IF last THEN anchor ELSE NextAnchor(newMessages)
           /\ IF ~last THEN pc' = "request" /\ UNCHANGED unreadTopics
              ELSE IF Len(collected) > 0
                   THEN pc' = "insertMessages" /\ UNCHANGED unreadTopics
                   ELSE NextTopic
    /\ requests' = requests + 1
    /\ visited' = visited \cup {CurrentConv}
    /\ UNCHANGED <<remoteVars, storeVars, clock, cmd, exitCode, queue, unreadMsgs,
                   siteId, streamDbId, topicDbId, lastMessageId, inserted,
                   totalNewMessages, prevMarkers, sawPost, prevPass, failedAt,
                   passStart, resume>>

\* A request of getTopicMessages throws.
FetchFail ==
    /\ cmd = "sync" /\ pc = "request"
    /\ Throw
    /\ UNCHANGED <<remoteVars, storeVars, clock>>

\* The transaction of insertMessages throws (the database cannot be
\* written); it is rolled back and no row of the batch is stored.
InsertMessagesFail ==
    /\ cmd = "sync" /\ pc = "insertMessages"
    /\ Throw
    /\ UNCHANGED <<remoteVars, storeVars, clock>>

\* The ZulipMessage objects getTopicMessages returned: the identifiers with
\* the content each was fetched with.
ZulipMessages(ids, ed) ==
    [i \in 1..Len(ids) |->
        [id |-> ids[i], content |-> IF ids[i] \in ed THEN "edited" ELSE "original"]]

\* insertMessages not awaited to its end: the loop goes to the next topic and
\* the watermark of this one is not written.
InsertMessages_NextTopic ==
    /\ cmd = "sync" /\ pc = "insertMessages"
    /\ LET r == insertMessages(topicDbId, ZulipMessages(allMessages, allEdited))
       IN  /\ messages' = r.rows
           /\ inserted' = r.inserted
           /\ totalNewMessages' = totalNewMessages + r.inserted
    /\ NextTopic
    /\ UNCHANGED <<remoteVars, sites, streams, topics, unread_messages, clock, cmd,
                   exitCode, queue, unreadMsgs, siteId, streamDbId,
                   topicDbId, lastMessageId, anchor, allMessages, allEdited, histVars>>

\* const inserted = insertMessages(topicDbId, messages); totalNewMessages += inserted
InsertMessages ==
    /\ cmd = "sync" /\ pc = "insertMessages"
    /\ LET r == insertMessages(topicDbId, ZulipMessages(allMessages, allEdited))
       IN  /\ messages' = r.rows
           /\ inserted' = r.inserted
           /\ totalNewMessages' = totalNewMessages + r.inserted
    /\ pc' = "updateTopicLastMessageId"
    /\ UNCHANGED <<remoteVars, sites, streams, topics, unread_messages, clock, cmd,
                   exitCode, queue, unreadMsgs, siteId, unreadTopics, streamDbId,
                   topicDbId, lastMessageId, anchor, allMessages, allEdited, histVars>>

\* updateTopicLastMessageId(topicDbId, maxMessageId); the export writes no
\* table; the for loop moves to the next topic.
UpdateTopicLastMessageId ==
    /\ cmd = "sync" /\ pc = "updateTopicLastMessageId"
    /\ topics' = updateTopicLastMessageId(topicDbId, maxMessageId(allMessages))
    /\ NextTopic
    /\ UNCHANGED <<remoteVars, sites, streams, messages, unread_messages, clock,
                   cmd, exitCode, queue, unreadMsgs, siteId, streamDbId, topicDbId,
                   lastMessageId, anchor, allMessages, allEdited, inserted, totalNewMessages,
                   histVars>>

\* updateSiteLastSync(siteId); syncSite returns and syncCommand takes the
\* next site, or the command ends with exit code 0.
UpdateSiteLastSync ==
    /\ cmd = "sync" /\ pc = "updateSiteLastSync"
    /\ sites' = updateSiteLastSync(siteId, clock)
    /\ prevPass' = IF sawPost THEN {}
                   ELSE {[site |-> Head(queue), unread |-> unreadMsgs]}
    /\ resume' = {}
    /\ UNCHANGED failedAt
    /\ IF Len(queue) = 1
       THEN Exit("ok")
       ELSE /\ queue' = Tail(queue)
            /\ pc' = "register"
            /\ ResetLocals
            /\ UNCHANGED <<cmd, exitCode>>
    /\ UNCHANGED <<remoteVars, streams, topics, messages, unread_messages, clock>>

\* The positions of syncSite between two steps that fetch a page or merge
\* a batch: not between insertMessages and updateTopicLastMessageId.
BetweenSteps ==
    /\ cmd = "sync"
    /\ pc \in {"getOrCreateStream", "getOrCreateTopic", "request", "insertMessages",
               "updateSiteLastSync"}

\* The running pass follows a pass of the same site and unread state that
\* was killed between two steps.
Resuming ==
    /\ cmd = "sync" /\ pc # "register"
    /\ \E r \in resume : r.site = Head(queue) /\ r.unread = unreadMsgs

\* The process is killed (SIGINT, SIGKILL, power loss) between two steps.
Interrupt ==
    /\ cmd = "sync"
    /\ Exit("killed")
    /\ prevPass' = {}
    /\ resume' = IF ~(BetweenSteps /\ ~sawPost) THEN {}
                 ELSE IF Resuming THEN resume
                 ELSE {[site |-> Head(queue), unread |-> unreadMsgs, origin |-> passStart]}
    /\ UNCHANGED failedAt
    /\ UNCHANGED <<remoteVars, storeVars, clock>>

\* The site lists syncCommand can be given: --all, --site <name>, or neither.
Requests == {listSites, <<getDefaultSite>>} \cup {<<s>> : s \in SiteNames}

Next ==
    \/ \E t \in PostTargets : RemotePost(t[1], t[2])
    \/ \E sitesArg \in Requests : StartSync(sitesArg)
    \/ Register
    \/ RegisterFail
    \/ GetOrCreateSite
    \/ ClearUnreadMessages
    \/ InsertUnreadMessages
    \/ InsertUnreadMessagesFail
    \/ GetOrCreateStream
    \/ GetOrCreateTopic
    \/ FetchPage
    \/ FetchFail
    \/ InsertMessages
    \/ InsertMessagesFail
    \/ UpdateTopicLastMessageId
    \/ UpdateSiteLastSync
    \/ Interrupt

Spec == Init /\ [][Next]_vars

\* The sync command beside a service on which messages are edited too.
NextEdit ==
    \/ Next
    \/ \E m \in 1..MaxMsgId : RemoteEdit(m)

SpecEdit == Init /\ [][NextEdit]_vars

(* ----------------------- the unread command ---------------------------- *)

\* `zulip-client unread`: unreadCommand picks the sites and enters
\* showUnreadForSite for the first of them.
StartUnread(sitesArg) ==
    /\ cmd = "idle"
    /\ clock < MaxRuns
    /\ clock' = clock + 1
    /\ cmd' = "unread"
    /\ queue' = sitesArg
    /\ pc' = "register"
    /\ exitCode' = "none"
    /\ ResetLocals
    /\ failedAt' = "none"
    /\ prevPass' = {}
    /\ resume' = {}
    /\ UNCHANGED <<remoteVars, storeVars>>

\* showUnreadForSite: await client.register() returns the unread state.
UnreadRegister ==
    /\ cmd = "unread" /\ pc = "register"
    /\ \E U \in SUBSET RemoteIds(Head(queue)), twice \in BOOLEAN :
           unreadMsgs' = UnreadStreams(Head(queue), U, twice)
    /\ pc' = "getOrCreateSite"
    /\ UNCHANGED <<remoteVars, storeVars, clock, cmd, exitCode, queue, siteId,
                   unreadTopics, streamDbId, topicDbId, lastMessageId, anchor,
                   allMessages, allEdited, inserted, totalNewMessages, histVars>>

\* showUnreadForSite: await client.register() throws; the action handler of
\* the unread command catches it: console.error, process.exit(1).
UnreadRegisterFail ==
    /\ cmd = "unread" /\ pc = "register"
    /\ Throw
    /\ UNCHANGED <<remoteVars, storeVars, clock>>

\* showUnreadForSite: const siteId = getOrCreateSite(siteName, client.siteUrl)
UnreadGetOrCreateSite ==
    /\ cmd = "unread" /\ pc = "getOrCreateSite"
    /\ sites' = getOrCreateSite_rows(Head(queue))
    /\ siteId' = getOrCreateSite(Head(queue))
    /\ pc' = "clearUnreadMessages"
    /\ UNCHANGED <<remoteVars, streams, topics, messages, unread_messages, clock,
                   cmd, exitCode, queue, unreadMsgs, unreadTopics, streamDbId,
                   topicDbId, lastMessageId, anchor, allMessages, allEdited, inserted,
                   totalNewMessages, histVars>>

\* showUnreadForSite: clearUnreadMessages(siteId)
UnreadClearUnreadMessages ==
    /\ cmd = "unread" /\ pc = "clearUnreadMessages"
    /\ unread_messages' = clearUnreadMessages(siteId)
    /\ prevMarkers' = {r \in unread_messages : r.site_id = siteId}
    /\ pc' = "insertUnreadMessages"
    /\ UNCHANGED <<remoteVars, sites, streams, topics, messages, clock, cmd,
                   exitCode, queue, localVars, sawPost, prevPass, requests,
                   failedAt, passStart, visited, resume>>

\* showUnreadForSite: insertUnreadMessages(siteId, unreadMsgs.streams, streamMap)
UnreadInsertUnreadMessages ==
    /\ cmd = "unread" /\ pc = "insertUnreadMessages"
    /\ LET r == insertUnreadMessages(siteId, unreadMsgs)
       IN  /\ r.ok
           /\ unread_messages' = r.rows
    /\ pc' = "display"
    /\ UNCHANGED <<remoteVars, sites, streams, topics, messages, clock, cmd,
                   exitCode, queue, localVars, histVars>>

\* showUnreadForSite: insertUnreadMessages throws on a UNIQUE(site_id,
\* message_id) violation; the transaction is rolled back.
UnreadInsertUnreadMessagesFail ==
    /\ cmd = "unread" /\ pc = "insertUnreadMessages"
    /\ ~insertUnreadMessages(siteId, unreadMsgs).ok
    /\ unread_messages' = insertUnreadMessages(siteId, unreadMsgs).rows
    /\ Throw
    /\ UNCHANGED <<remoteVars, sites, streams, topics, messages, clock>>

\* showUnreadForSite with updateSiteLastSync(siteId) after the summary: the
\* unread command stamps the site as synced.
UnreadDisplay_Stamped ==
    /\ cmd = "unread" /\ pc = "display"
    /\ sites' = updateSiteLastSync(siteId, clock)
    /\ UNCHANGED <<prevPass, failedAt, resume>>
    /\ IF Len(queue) = 1
       THEN Exit("ok")
       ELSE /\ queue' = Tail(queue)
            /\ pc' = "register"
            /\ ResetLocals
            /\ UNCHANGED <<cmd, exitCode>>
    /\ UNCHANGED <<remoteVars, streams, topics, messages, unread_messages, clock>>

\* showUnreadForSite: getTotalUnreadCount(siteId) and getUnreadSummary(siteId)
\* are read and printed; showUnreadForSite returns and unreadCommand takes the
\* next site, or the command ends with exit code 0.
UnreadDisplay ==
    /\ cmd = "unread" /\ pc = "display"
    /\ UNCHANGED <<prevPass, failedAt, resume>>
    /\ IF Len(queue) = 1
       THEN Exit("ok")
       ELSE /\ queue' = Tail(queue)
            /\ pc' = "register"
            /\ ResetLocals
            /\ UNCHANGED <<cmd, exitCode>>
    /\ UNCHANGED <<remoteVars, storeVars, clock>>

\* The process is killed while the unread command runs.
UnreadInterrupt ==
    /\ cmd = "unread"
    /\ Exit("killed")
    /\ prevPass' = {}
    /\ resume' = {}
    /\ UNCHANGED failedAt
    /\ UNCHANGED <<remoteVars, storeVars, clock>>

\* The sync command and the unread command, run one after the other in any
\* order.
NextUnread ==
    \/ Next
    \/ \E sitesArg \in Requests : StartUnread(sitesArg)
    \/ UnreadRegister
    \/ UnreadRegisterFail
    \/ UnreadGetOrCreateSite
    \/ UnreadClearUnreadMessages
    \/ UnreadInsertUnreadMessages
    \/ UnreadInsertUnreadMessagesFail
    \/ UnreadDisplay
    \/ UnreadInterrupt

SpecUnread == Init /\ [][NextUnread]_vars

(* ------------------------------ claims --------------------------------- *)

\* The unread markers of a site as (message, stream, topic) triples.
Markers(rows, sId) ==
    {<<r.message_id, r.stream_id, r.topic_name>> : r \in {x \in rows : x.site_id = sId}}

\* The (message, stream, topic) triples of an unread state of register().
Supplied(unreads) ==
    UNION {{<<unreads[k].unread_message_ids[i], unreads[k].stream_id, unreads[k].topic>>
              : i \in 1..Len(unreads[k].unread_message_ids)} : k \in 1..Len(unreads)}

\* The positions of syncSite after clearUnreadMessages and
\* insertUnreadMessages have both returned.
AfterReconcile ==
    /\ cmd = "sync"
    /\ pc \in {"getOrCreateStream", "getOrCreateTopic", "request", "insertMessages",
               "updateTopicLastMessageId", "updateSiteLastSync"}

\* C1 (no duplication): no two stored message rows of one conversation
\* carry the same remote message identifier, whatever passes have run and
\* whatever they fetched again.
C1_NoDuplication ==
    \A r1 \in messages, r2 \in messages :
        (ConvOfTopic(r1.topic_id) = ConvOfTopic(r2.topic_id)
            /\ r1.message_id = r2.message_id) => r1 = r2

\* A batch that held an already stored message has just been merged.
C1_Witness ==
    /\ cmd = "sync" /\ pc = "updateTopicLastMessageId"
    /\ inserted < Len(allMessages)

\* C2 (watermark soundness): in every state of the store every topics row
\* has last_message_id equal to the largest stored identifier of the topic,
\* or NULL when the topic has no stored message.
C2_WatermarkSoundness ==
    \A t \in topics :
        t.last_message_id = IF StoredIds(t.id) = {} THEN NULL ELSE Max(StoredIds(t.id))

\* C3 (no loss): when a conversation's fetch has completed and its watermark
\* is written, every message the service holds for the conversation up to
\* the new watermark is stored; and the first request of a fetch that starts
\* from watermark w brings message w + 1 when the service holds it.
C3_NoLoss ==
    [][/\ (cmd = "sync" /\ pc = "updateTopicLastMessageId" /\ topics' # topics) =>
            \A m \in remote[Head(queue)][CurrentConv] :
                m <= getTopicLastMessageId(topics', topicDbId)
                    => m \in StoredIds(topicDbId)
       /\ (/\ cmd = "sync" /\ pc = "request" /\ cmd' = "sync" /\ remote' = remote
           /\ lastMessageId # NULL /\ anchor = lastMessageId + 1
           /\ lastMessageId + 1 \in remote[Head(queue)][CurrentConv]) =>
            \E i \in 1..Len(allMessages') : allMessages'[i] = lastMessageId + 1
      ]_vars

\* C4 (mergeMessages atomicity): while syncSite holds a fetched batch, the
\* batch is stored exactly when the topic's watermark is the batch maximum;
\* no state has one without the other.
C4_MergeAtomic ==
    (cmd = "sync" /\ pc \in {"insertMessages", "updateTopicLastMessageId"}) =>
        ((SeqRange(allMessages) \subseteq StoredIds(topicDbId))
            <=> (getTopicLastMessageId(topics, topicDbId) = maxMessageId(allMessages)))

\* C5 (unread replacement): once clearUnreadMessages and insertUnreadMessages
\* have returned in a pass, the site's unread markers are exactly the stream
\* unread state register() returned to that pass.
C5_UnreadReplacement ==
    AfterReconcile => Markers(unread_messages, siteId) = Supplied(unreadMsgs)

\* The reconcile of a pass has replaced markers of an earlier pass, and a
\* marker that is no longer unread is gone.
C5_Witness ==
    /\ AfterReconcile
    /\ pc = "getOrCreateStream"
    /\ \E r \in prevMarkers :
           <<r.message_id, r.stream_id, r.topic_name>> \notin Supplied(unreadMsgs)

\* C6 (unread atomicity): from the moment a pass starts replacing a site's
\* markers, every state shows either the complete previous set or the
\* complete new set.
C6_UnreadAtomic ==
    (cmd = "sync" /\ (pc = "insertUnreadMessages" \/ AfterReconcile)) =>
        \/ Markers(unread_messages, siteId) = Markers(prevMarkers, siteId)
        \/ Markers(unread_messages, siteId) = Supplied(unreadMsgs)

\* The running pass follows a completed pass of the same site that got the
\* same unread state, and the site has had no new message since that pass.
SecondPass ==
    /\ cmd = "sync" /\ pc # "register"
    /\ prevPass = {[site |-> Head(queue), unread |-> unreadMsgs]}

\* C7 (idempotence): no step of such a second pass adds a message row or
\* changes the watermark of a conversation.
C7_Idempotence ==
    [][SecondPass =>
          /\ messages' = messages
          /\ \A t \in topics' : t.last_message_id = getTopicLastMessageId(topics, t.id)
      ]_vars

\* A second pass that had conversations to fetch has visited all of them.
C7_Witness ==
    /\ SecondPass
    /\ pc = "updateSiteLastSync"
    /\ unreadMsgs # <<>>
    /\ messages # {}

\* C8 (partial-failure isolation): when a request of getTopicMessages throws
\* for one planned conversation, the planned conversations not yet visited
\* are fully synced when the pass is over: every message the service holds
\* for them is stored.
C8_PartialFailureIsolation ==
    [][(cmd = "sync" /\ pc = "request" /\ exitCode' = "error") =>
          \A i \in 2..Len(unreadTopics) :
              LET conv == [stream_id |-> unreadTopics[i].streamId,
                           topic |-> unreadTopics[i].topicName]
              IN  \A m \in remote[Head(queue)][conv] :
                      \E tId \in TopicIdsOf(Head(queue), conv) : m \in StoredIds(tId)
      ]_vars

\* C9 (multi-site isolation): when the command ends, by success or by a
\* thrown error, the pass of every requested site has been started: no site
\* is left behind the current one.
C9_AllSitesAttempted ==
    [][(cmd = "sync" /\ cmd' = "idle" /\ exitCode' # "killed") => Len(queue) = 1]_vars

\* C10 (exit status): a command that ends reports failure exactly when a
\* site-level step (register, or replacing the unread markers) failed; a
\* failed fetch of one conversation does not make it fail.
C10_ExitStatus ==
    [][(cmd = "sync" /\ cmd' = "idle" /\ exitCode' # "killed") =>
          (exitCode' = "error" <=> pc \in {"register", "insertUnreadMessages"})
      ]_vars

\* C11 (retries are invisible): a page request that fails is tried again, so
\* no failure of a request of getTopicMessages ends the command with an error
\* and the pass goes on to the stored set and watermark of a successful call.
C11_RetryInvisible ==
    [][(cmd = "sync" /\ pc = "request") => exitCode' # "error"]_vars

\* A conversation of the store is sound: the watermark is the largest stored
\* identifier, or NULL when nothing is stored.
SoundConv(o) == o.w = IF o.ids = {} THEN NULL ELSE Max(o.ids)

\* What a visit of the for loop of syncSite makes of a conversation that
\* was o in the store, when the service holds the messages held all along.
SyncedConv(o, held) ==
    LET fetched == IF FirstAnchor(o.w) = OLDEST THEN held
                   ELSE {m \in held : m > FirstAnchor(o.w)}
    IN  [ids |-> o.ids \cup fetched,
         w   |-> IF fetched = {} THEN o.w ELSE Max(fetched)]

\* The conversations register() reported unread to the running pass.
PlannedConvs ==
    {[stream_id |-> unreadMsgs[k].stream_id, topic |-> unreadMsgs[k].topic]
        : k \in 1..Len(unreadMsgs)}

\* The store the work of the running pass began from: where the killed pass
\* it resumes began, or where it began itself.
PassOrigin == IF Resuming THEN (CHOOSE r \in resume : TRUE).origin ELSE passStart

\* A pass that has visited all its conversations, while the site got no
\* message, has made of every planned conversation what one unbroken pass
\* makes of it, and has left the others alone.
PassConverges ==
    (cmd = "sync" /\ pc = "updateSiteLastSync" /\ ~sawPost) =>
        \A c \in Convs :
            ConvState(Head(queue), c) =
                IF c \in PlannedConvs
                THEN SyncedConv(PassOrigin[c], remote[Head(queue)][c])
                ELSE PassOrigin[c]

C14_WatermarkMonotonic ==
    [][/\ \A t \in topics : getTopicLastMessageId(topics', t.id) >= t.last_message_id
       /\ (cmd = "sync" /\ pc = "updateTopicLastMessageId" /\ cmd' = "sync" /\ pc' # pc) =>
              getTopicLastMessageId(topics', topicDbId) > lastMessageId
      ]_vars

\* updateTopicLastMessageId has raised a watermark that an earlier pass wrote.
C14_Witness ==
    /\ cmd = "sync" /\ pc \in {"getOrCreateStream", "updateSiteLastSync"}
    /\ lastMessageId # NULL
    /\ allMessages # <<>>
    /\ getTopicLastMessageId(topics, topicDbId) = maxMessageId(allMessages)
    /\ getTopicLastMessageId(topics, topicDbId) > lastMessageId

\* C15 (finalize ordering): a step changes the last_sync of a site only at
\* updateSiteLastSync of that site's pass, when the for loop has left no
\* planned conversation unvisited and each of them has its topics row; and a
\* command that ends by an error or a kill changes no last_sync as it ends.
C15_FinalizeOrdering ==
    [][/\ \A s \in sites :
              (\E r \in sites' : r.id = s.id /\ r.last_sync # s.last_sync) =>
                  /\ cmd = "sync" /\ pc = "updateSiteLastSync"
                  /\ s.id = siteId
                  /\ unreadTopics = <<>>
                  /\ \A c \in PlannedConvs : TopicIdsOf(Head(queue), c) # {}
       /\ (cmd = "sync" /\ exitCode' \in {"error", "killed"}) => sites' = sites
      ]_vars

\* A pass that planned two conversations has ended and has stamped its site.
C15_Witness ==
    /\ cmd = "idle" /\ exitCode = "ok"
    /\ \E s \in sites :
           /\ s.last_sync = clock
           /\ \A c \in Convs : \E tId \in TopicIdsOf(s.name, c) :
                  getTopicLastMessageId(topics, tId) # NULL

\* C16 (register failure is fatal and free of side effects): from the start
\* of a site's pass until register() has returned or thrown no step changes
\* any table, and when register() throws the command ends there: no further
\* register() call is made and no remaining site is taken up.
C16_RegisterFailure ==
    [][(cmd = "sync" /\ pc = "register") =>
          /\ storeVars' = storeVars
          /\ exitCode' = "error" => (cmd' = "idle" /\ queue' = <<>>)
      ]_vars

\* register() threw in a pass that found rows of earlier passes in the store.
C16_Witness ==
    /\ cmd = "idle" /\ exitCode = "error" /\ failedAt = "register"
    /\ unread_messages # {}
    /\ messages # {}
    /\ \E s \in sites : s.last_sync # NULL

\* C17 (two-page scenario): a fetch that starts from an empty watermark in a
\* conversation holding more than one page and at most two pages of messages
\* (1500 messages for pages of 1000; 3 for pages of 2), none of them posted
\* during the pass, makes exactly two requests, and once the batch is merged
\* every message of the conversation is stored and the watermark is the
\* largest of their identifiers.
C17_TwoPages ==
    [][(/\ cmd = "sync" /\ pc = "updateTopicLastMessageId" /\ cmd' = "sync" /\ pc' # pc
        /\ lastMessageId = NULL /\ ~sawPost
        /\ Cardinality(remote[Head(queue)][CurrentConv]) > batchSize
        /\ Cardinality(remote[Head(queue)][CurrentConv]) <= 2 * batchSize) =>
          /\ requests = 2
          /\ \A m \in remote[Head(queue)][CurrentConv] :
                 \E r \in messages' : r.topic_id = topicDbId /\ r.message_id = m
          /\ getTopicLastMessageId(topics', topicDbId) = Max(remote[Head(queue)][CurrentConv])
      ]_vars

\* The second request has brought the rest of such a conversation.
C17_Witness ==
    /\ cmd = "sync" /\ pc = "updateTopicLastMessageId"
    /\ lastMessageId = NULL /\ ~sawPost
    /\ requests = 2
    /\ Len(allMessages) > batchSize
    /\ SeqRange(allMessages) = remote[Head(queue)][CurrentConv]

\* The unread state register() returns when every message of the site is
\* unread.
AllUnread(site) == UnreadStreams(site, RemoteIds(site), FALSE)

\* A pass of a site whose messages are all in one conversation and all
\* unread, begun with nothing of the site stored, has visited its topics
\* while the site got no message.
FirstSyncDone ==
    /\ cmd = "sync" /\ pc = "updateSiteLastSync" /\ ~sawPost
    /\ passStart = NoOrigin
    /\ Len(unreadMsgs) = 1
    /\ unreadMsgs = AllUnread(Head(queue))

\* The running pass follows a completed pass of the same site in which the
\* messages of the site, all in one conversation, were all unread; the site
\* has got no message since, and the unread messages are now some of them.
ReadElsewhere ==
    /\ cmd = "sync" /\ pc # "register"
    /\ prevPass = {[site |-> Head(queue), unread |-> AllUnread(Head(queue))]}
    /\ Len(AllUnread(Head(queue))) = 1
    /\ Supplied(unreadMsgs) \subseteq Supplied(AllUnread(Head(queue)))

\* C18 (read-elsewhere scenario): the first sync of a conversation whose
\* messages are all unread stores all of them, with the watermark at the
\* largest identifier and one unread marker per message; a second sync with
\* the same remote messages, of which only some are still unread, sets the
\* markers to those, inserts 0 messages and changes no stored message and
\* no watermark.
C18_ReadElsewhere ==
    [][/\ (FirstSyncDone =>
              /\ \A c \in PlannedConvs :
                     ConvState(Head(queue), c) =
                         [ids |-> remote[Head(queue)][c],
                          w   |-> Max(remote[Head(queue)][c])]
              /\ Markers(unread_messages, siteId) = Supplied(unreadMsgs))'
       /\ ReadElsewhere =>
              /\ messages' = messages
              /\ \A t \in topics' : t.last_message_id = getTopicLastMessageId(topics, t.id)
              /\ totalNewMessages' = 0
              /\ (AfterReconcile => Markers(unread_messages, siteId) = Supplied(unreadMsgs))'
      ]_vars

\* The second sync has visited the conversation: all MaxMsgId messages are
\* stored and all but one of them are still marked unread.
C18_Witness ==
    /\ ReadElsewhere
    /\ pc = "updateSiteLastSync"
    /\ Cardinality(Supplied(unreadMsgs)) = MaxMsgId - 1
    /\ Cardinality(messages) = MaxMsgId
    /\ Markers(unread_messages, siteId) = Supplied(unreadMsgs)
    /\ \A c \in PlannedConvs : ConvState(Head(queue), c).w = MaxMsgId

\* Before every request of getTopicMessages, each request made so far in the
\* call has been paid for by batchSize messages of the conversation, none of
\* them above the anchor.
RequestsPaid ==
    (cmd = "sync" /\ pc = "request") =>
        requests * batchSize <=
            Cardinality({m \in remote[Head(queue)][CurrentConv] : m <= anchor})

\* C19 (pagination terminates): a request of getTopicMessages that does not
\* end the loop strictly increases the anchor, and the requests of one call
\* are bounded by the messages the conversation holds, also when messages
\* are posted during the fetch: the loop cannot go on for ever in a finite
\* conversation.
C19_PaginationTerminates ==
    [][/\ (/\ cmd = "sync" /\ pc = "request"
           /\ cmd' = "sync" /\ pc' = "request" /\ requests' = requests + 1) =>
              anchor' > anchor
       /\ RequestsPaid'
       /\ (cmd = "sync" /\ pc = "request" /\ requests' = requests + 1) =>
              requests' <= (Cardinality(remote[Head(queue)][CurrentConv]) \div batchSize) + 1
      ]_vars

\* A call has ended after a second request although the site got a message
\* during the pass.
C19_Witness ==
    /\ cmd = "sync" /\ pc = "insertMessages"
    /\ sawPost
    /\ requests = 2
    /\ Len(allMessages) > batchSize

\* C20 (in-order pages): the anchor of a request of getTopicMessages is
\* strictly greater than the anchor of the request before it, and every
\* message a request adds to allMessages has a larger identifier than every
\* message of the pages before.
C20_InOrderPages ==
    [][(cmd = "sync" /\ pc = "request" /\ requests' = requests + 1) =>
          /\ pc' = "request" => anchor' > anchor
          /\ \A i \in 1..Len(allMessages), j \in (Len(allMessages) + 1)..Len(allMessages') :
                 allMessages'[i] = allMessages[i] /\ allMessages'[j] > allMessages[i]
          /\ \A i \in 1..Len(allMessages'), j \in 1..Len(allMessages') :
                 i < j => allMessages'[i] < allMessages'[j]
      ]_vars

\* The second page of a conversation has been added behind the first.
C20_Witness ==
    /\ cmd = "sync" /\ pc = "insertMessages"
    /\ requests = 2
    /\ Len(allMessages) > batchSize
    /\ anchor = allMessages[batchSize]

\* C21 (anchor correctness): every message getTopicMessages returns for a
\* fetch that starts from watermark w (none, before every message) has an
\* identifier above w, none of them is stored already, and insertMessages
\* inserts as many rows as were fetched.
C21_AnchorCorrectness ==
    [][(cmd = "sync" /\ pc = "insertMessages" /\ pc' = "updateTopicLastMessageId") =>
          /\ \A i \in 1..Len(allMessages) : allMessages[i] > lastMessageId
          /\ SeqRange(allMessages) \cap StoredIds(topicDbId) = {}
          /\ inserted' = Len(allMessages)
      ]_vars

\* C22 (per-page merge): before getTopicMessages requests a further page,
\* the pages it has got so far are stored rows of the topic and the topic's
\* watermark is the largest identifier among them; so a failure of that
\* request leaves those pages stored.
C22_PerPageMerge ==
    (cmd = "sync" /\ pc = "request" /\ allMessages # <<>>) =>
        /\ SeqRange(allMessages) \subseteq StoredIds(topicDbId)
        /\ getTopicLastMessageId(topics, topicDbId) = maxMessageId(allMessages)

\* The response to the request getTopicMessages is about to make.
PendingResponse == GetMessagesResponse(Head(queue), CurrentConv, anchor, batchSize)

\* C23 (stop conditions): a request of getTopicMessages adds at most
\* batchSize new messages, and the loop makes another request exactly when
\* the page had batchSize new messages and found_newest was false; a page
\* with found_newest, with fewer new messages or with none ends it.
C23_StopConditions ==
    [][(cmd = "sync" /\ pc = "request" /\ requests' = requests + 1) =>
          LET n == Len(allMessages') - Len(allMessages)
          IN  /\ n <= batchSize
              /\ (cmd' = "sync" /\ pc' = "request")
                     <=> (n = batchSize /\ ~PendingResponse.found_newest)
      ]_vars

\* A full page without found_newest was followed by a second request, and a
\* page of one message ended the loop.
C23_Witness ==
    /\ cmd = "sync" /\ pc = "insertMessages"
    /\ ~sawPost
    /\ requests = 2
    /\ Len(allMessages) = batchSize + 1

\* C24 (flag precedence): a page that is full (as many messages as were
\* requested) and carries found_newest is the last one: getTopicMessages
\* returns without another request.
C24_FlagPrecedence ==
    [][(/\ cmd = "sync" /\ pc = "request" /\ requests' = requests + 1
        /\ PendingResponse.found_newest
        /\ Len(PendingResponse.messages) >= batchSize) =>
          /\ pc' # "request"
          /\ anchor' = anchor
      ]_vars

\* One request brought a full page that was all the conversation holds.
C24_Witness ==
    /\ cmd = "sync" /\ pc = "insertMessages"
    /\ ~sawPost
    /\ requests = 1
    /\ Len(allMessages) = batchSize
    /\ SeqRange(allMessages) = remote[Head(queue)][CurrentConv]

\* The (stream, topic) pairs that carry unread markers of a site.
MarkerConvs(rows, sId) ==
    {[stream_id |-> r.stream_id, topic |-> r.topic_name]
        : r \in {x \in rows : x.site_id = sId}}

\* C25 (plan from the store): once the markers of the site are replaced, the
\* conversations the pass sends requests for are conversations with unread
\* markers in the store; when the for loop has ended they are exactly those;
\* and a conversation without a marker keeps the messages and the watermark
\* it had when the pass began.
C25_PlanFromStore ==
    AfterReconcile =>
        /\ visited \subseteq MarkerConvs(unread_messages, siteId)
        /\ pc = "updateSiteLastSync" => visited = MarkerConvs(unread_messages, siteId)
        /\ \A c \in Convs \ MarkerConvs(unread_messages, siteId) :
               ConvState(Head(queue), c) = passStart[c]

\* A pass has fetched one conversation and has left alone another one that
\* has no unread marker, although the service holds a message the store
\* lacks.
C25_Witness ==
    /\ cmd = "sync" /\ pc = "updateSiteLastSync"
    /\ visited # {}
    /\ \E c \in Convs \ visited :
           /\ remote[Head(queue)][c] \ ConvState(Head(queue), c).ids # {}
           /\ ConvState(Head(queue), c) = passStart[c]

\* C26 (lazy conversation creation on reconcile): once the markers of a
\* site are replaced, every conversation a marker refers to has a topics
\* row in the store.
C26_RowsOnReconcile ==
    AfterReconcile =>
        \A c \in MarkerConvs(unread_messages, siteId) : TopicIdsOf(Head(queue), c) # {}

\* C27 (conversation uniqueness): the store never holds two streams rows
\* for one (site, remote stream identifier) nor two topics rows for one
\* (site, remote stream identifier, topic name); and getOrCreateTopic for a
\* conversation that has a row returns that row, changes no topics row and
\* the pass reads the watermark the row had.
C27_ConversationUniqueness ==
    [][/\ (\A r1 \in streams, r2 \in streams :
              (r1.site_id = r2.site_id /\ r1.stream_id = r2.stream_id) => r1 = r2)'
       /\ (\A s \in SiteNames, c \in Convs : Cardinality(TopicIdsOf(s, c)) <= 1)'
       /\ (/\ cmd = "sync" /\ pc = "getOrCreateTopic" /\ pc' = "request"
           /\ TopicIdsOf(Head(queue), CurrentConv) # {}) =>
              /\ topics' = topics
              /\ topicDbId' \in TopicIdsOf(Head(queue), CurrentConv)
              /\ lastMessageId' = ConvState(Head(queue), CurrentConv).w
      ]_vars

\* A later pass has come to a conversation again and has found its row and
\* its watermark.
C27_Witness ==
    /\ cmd = "sync" /\ pc = "request" /\ requests = 0
    /\ clock > 1
    /\ lastMessageId # NULL
    /\ lastMessageId = ConvState(Head(queue), CurrentConv).w
    /\ Cardinality(TopicIdsOf(Head(queue), CurrentConv)) = 1

(* ------------------------------- C28 ----------------------------------- *)

\* The stored row of message msgId in topic tId, as a set (empty or one row).
StoredRow(rows, tId, msgId) ==
    {r \in rows : r.topic_id = tId /\ r.message_id = msgId}

\* getTopicMessages returned a message that is stored already, with a content
\* other than the stored one.
RefetchedEdited ==
    \E m \in allEdited :
        \E r \in StoredRow(messages, topicDbId, m) : r.content = "original"

\* C28: messages are immutable and append-only.  No step of a sync pass
\* changes or deletes a stored message row, so the stored messages of every
\* conversation only grow; a row that is added is for a (topic, identifier)
\* that had no row, so that fetching a stored message again with a different
\* content leaves its row as it was.
C28_AppendOnly ==
    [][/\ messages \subseteq messages'
       /\ \A r \in messages' \ messages :
              StoredRow(messages, r.topic_id, r.message_id) = {}
       /\ (cmd = "sync" /\ pc = "insertMessages" /\ RefetchedEdited) =>
              \A m \in allEdited :
                  StoredRow(messages', topicDbId, m) = StoredRow(messages, topicDbId, m)
             \/ StoredRow(messages, topicDbId, m) = {}
      ]_vars

\* The merge ran on a batch holding a stored message in an edited version,
\* and the store still has the original content.
C28_Witness ==
    /\ cmd = "sync" /\ pc = "updateTopicLastMessageId"
    /\ RefetchedEdited

(* ------------------------------- C29 ----------------------------------- *)

\* The message rows of a topic for the identifiers S, in increasing order.
MessageRows(tId, S) ==
    {[id |-> i, topic_id |-> tId, message_id |-> SortedSeq(S)[i],
      content |-> "original"] : i \in 1..Cardinality(S)}

\* insertMessages on its own: a pass of the first site has come to the merge
\* of its only unread conversation, with any stored messages S and any batch,
\* repeats and stored messages included.
InitBatch ==
    LET s0 == Head(listSites)
        c0 == ConvList[1]
    IN  \E S \in SUBSET (1..MaxMsgId),
           batch \in UNION {[1..n -> 1..MaxMsgId] : n \in 1..MaxBatch} :
            /\ remote = [s \in SiteNames |-> [c \in Convs |->
                            IF s = s0 /\ c = c0 THEN 1..MaxMsgId ELSE {}]]
            /\ nextMsgId = MaxMsgId + 1
            /\ edited = {}
            /\ allEdited = {}
            /\ sites = {[id |-> 1, name |-> s0, last_sync |-> NULL]}
            /\ streams = {[id |-> 1, site_id |-> 1, stream_id |-> c0.stream_id,
                           name |-> SubscriptionName(c0.stream_id)]}
            /\ topics = {[id |-> 1, stream_id |-> 1, name |-> c0.topic,
                          last_message_id |-> NULL]}
            /\ messages = MessageRows(1, S)
            /\ unread_messages = {[site_id |-> 1, message_id |-> 1,
                                   stream_id |-> c0.stream_id,
                                   stream_name |-> SubscriptionName(c0.stream_id),
                                   topic_name |-> c0.topic]}
            /\ clock = MaxRuns
            /\ cmd = "sync"
            /\ pc = "insertMessages"
            /\ exitCode = "none"
            /\ queue = <<s0>>
            /\ unreadMsgs = <<[stream_id |-> c0.stream_id, topic |-> c0.topic,
                               unread_message_ids |-> <<1>>]>>
            /\ siteId = 1
            /\ unreadTopics = <<[streamId |-> c0.stream_id,
                                 streamName |-> SubscriptionName(c0.stream_id),
                                 topicName |-> c0.topic, messageIds |-> {1}]>>
            /\ streamDbId = 1
            /\ topicDbId = 1
            /\ lastMessageId = NULL
            /\ anchor = OLDEST
            /\ allMessages = batch
            /\ inserted = 0
            /\ totalNewMessages = 0
            /\ prevMarkers = {}
            /\ sawPost = FALSE
            /\ prevPass = {}
            /\ requests = 1
            /\ failedAt = "none"
            /\ passStart = [c \in Convs |->
                               [ids |-> IF c = c0 THEN S ELSE {}, w |-> NULL]]
            /\ visited = {c0}
            /\ resume = {}

\* The sync command, and insertMessages given any batch.
SpecBatch == (Init \/ InitBatch) /\ [][Next]_vars

RECURSIVE RowsAdded(_, _)
\* The message rows the store has got for the conversations convs of a site
\* since register() of the running pass returned.
RowsAdded(site, convs) ==
    IF convs = <<>> THEN 0
    ELSE Cardinality(ConvState(site, Head(convs)).ids \ passStart[Head(convs)].ids)
         + RowsAdded(site, Tail(convs))

\* C29: insertMessages returns the number of messages of the batch that the
\* topic did not hold (a message the batch has twice counts once) and stores
\* exactly those, and a pass that comes to its end reports as 'new messages
\* stored' the number of message rows the store has got since the pass
\* started.
C29_InsertedCount ==
    [][/\ (cmd = "sync" /\ pc = "insertMessages" /\ pc' = "updateTopicLastMessageId") =>
              /\ inserted' = Cardinality(SeqRange(allMessages) \ StoredIds(topicDbId))
              /\ Cardinality(messages') = Cardinality(messages) + inserted'
              /\ totalNewMessages' = totalNewMessages + inserted'
       /\ (cmd = "sync" /\ pc = "updateSiteLastSync") =>
              totalNewMessages = RowsAdded(Head(queue), ConvList)
      ]_vars

\* A batch that has a message twice, a stored message and a new one has been
\* merged.
C29_Witness ==
    /\ cmd = "sync" /\ pc = "updateTopicLastMessageId"
    /\ Len(allMessages) > Cardinality(SeqRange(allMessages))
    /\ 0 < inserted /\ inserted < Cardinality(SeqRange(allMessages))

\* A pass that merged batches for two conversations has come to its end.
C29_WitnessPassEnd ==
    /\ cmd = "sync" /\ pc = "updateSiteLastSync"
    /\ Cardinality(visited) = 2
    /\ totalNewMessages >= 2

(* ------------------------------- C30 ----------------------------------- *)

\* The remote requests syncSite has sent and not got the response of: it
\* awaits register() at the start of the pass and one GET /messages per turn
\* of the loop of getTopicMessages, and sends nothing anywhere else.
Outstanding ==
    IF cmd = "sync" /\ pc = "register"
    THEN {[site |-> Head(queue), path |-> "/register"]}
    ELSE IF cmd = "sync" /\ pc = "request"
    THEN {[site |-> Head(queue), path |-> "/messages", conv |-> CurrentConv,
           anchor |-> anchor]}
    ELSE {}

\* The batch of the conversation the pass visited last is in the store and
\* the conversation's watermark is the largest identifier of the batch.
BatchWritten ==
    /\ SeqRange(allMessages) \subseteq StoredIds(topicDbId)
    /\ getTopicLastMessageId(topics, topicDbId) = maxMessageId(allMessages)

\* C30: sequential I/O.  At most one remote request is outstanding, and it
\* is a request to the site at the head of the queue; syncCommand goes to the
\* next site only from the end of the pass of the site before it (no topic
\* left, last_sync written, the locals of the pass gone); and when the pass
\* goes to the next conversation, or to its end, the batch it fetched for the
\* conversation before is stored and that conversation's watermark written.
C30_SequentialIO ==
    [][/\ Cardinality(Outstanding) <= 1
       /\ \A r \in Outstanding : r.site = Head(queue)
       /\ (cmd = "sync" /\ cmd' = "sync" /\ queue' # queue) =>
              /\ pc = "updateSiteLastSync" /\ unreadTopics = <<>>
              /\ queue' = Tail(queue)
              /\ \A s \in sites' : s.id = siteId => s.last_sync = clock
              /\ pc' = "register" /\ unreadTopics' = <<>> /\ allMessages' = <<>>
              /\ Outstanding = {}
       /\ (/\ cmd = "sync"
           /\ pc \in {"getOrCreateStream", "getOrCreateTopic", "updateSiteLastSync"}
           /\ allMessages # <<>>) => BatchWritten
       /\ (cmd = "sync" /\ pc # "request" /\ pc' = "request") =>
              /\ Outstanding = {}
              /\ pc = "getOrCreateTopic"
      ]_vars

\* The pass of the second site of a run has sent the first request for its
\* conversation, after the pass of the first site stored a batch.
C30_Witness ==
    /\ cmd = "sync" /\ pc = "request" /\ requests = 0
    /\ Len(queue) < Len(listSites)
    /\ \E s \in sites : s.name = listSites[1] /\ s.last_sync = clock
    /\ messages # {}

(* ------------------------------- C31 ----------------------------------- *)

\* The unread rows of the sites other than sId.
OtherMarkers(rows, sId) == {r \in rows : r.site_id # sId}

\* C31: replacing the unread markers of one site leaves the markers of every
\* other site as they were.  The step of a pass that clears the site's rows
\* and the step that inserts the rows of the new unread state change no row
\* of another site, and no other step changes the table at all.
C31_PerSiteScope ==
    [][/\ (cmd = "sync" /\ pc \in {"clearUnreadMessages", "insertUnreadMessages"}) =>
              OtherMarkers(unread_messages', siteId) = OtherMarkers(unread_messages, siteId)
       /\ ~(cmd = "sync" /\ pc \in {"clearUnreadMessages", "insertUnreadMessages"}) =>
              unread_messages' = unread_messages
      ]_vars

\* A pass has replaced the markers of its site, some of which are gone,
\* while another site has markers.
C31_Witness ==
    /\ AfterReconcile
    /\ OtherMarkers(unread_messages, siteId) # {}
    /\ Markers(prevMarkers, siteId) # {}
    /\ Markers(unread_messages, siteId) # Markers(prevMarkers, siteId)
    /\ Markers(unread_messages, siteId) # {}

(* ------------------------------- C32 ----------------------------------- *)

\* C32: the unread command changes unread state only.  No step of the
\* unread command changes a message row, a streams or topics row (so no
\* watermark), or a row of the sites table; the only row it adds to the sites
\* table is the row of its own site, never synced; and the only unread rows
\* it changes are those of its own site.
C32_UnreadOnly ==
    [][cmd = "unread" =>
          /\ messages' = messages
          /\ topics' = topics
          /\ streams' = streams
          /\ sites \subseteq sites'
          /\ \A s \in sites' \ sites : s.name = Head(queue) /\ s.last_sync = NULL
          /\ unread_messages' # unread_messages =>
                 OtherMarkers(unread_messages', siteId) = OtherMarkers(unread_messages, siteId)
      ]_vars

\* The unread command has replaced the markers of a site that an earlier
\* sync command stored messages for and stamped.
C32_Witness ==
    /\ cmd = "unread" /\ pc = "display"
    /\ messages # {}
    /\ \E s \in sites : s.id = siteId /\ s.last_sync # NULL
    /\ Markers(unread_messages, siteId) # Markers(prevMarkers, siteId)

\* The unread command has created the row of its site.
C32_WitnessNewSite ==
    /\ cmd = "unread" /\ pc = "display"
    /\ \E s \in sites : s.id = siteId /\ s.last_sync = NULL
    /\ Cardinality(sites) = 2

(* ------------------------------- C33 ----------------------------------- *)

\* The running pass is past the reconcile and its site has no unread marker.
EmptyPlan ==
    /\ AfterReconcile
    /\ Markers(unread_messages, siteId) = {}

\* C33: a pass whose site has no unread stream message after the reconcile
\* goes straight to updateSiteLastSync: it has sent no request for messages,
\* every conversation of the site has the stored messages and the watermark
\* it had when the pass started, its step changes no message and no topics
\* row, and when the pass ends the site's last_sync is the time of the run.
C33_EmptyPlan ==
    [][/\ (/\ cmd = "sync" /\ pc = "insertUnreadMessages"
           /\ exitCode' \notin {"killed", "error"}
           /\ pc' # pc
           /\ unread_messages' = clearUnreadMessages(siteId)) =>
              /\ cmd' = "sync" /\ queue' = queue /\ pc' = "updateSiteLastSync"
       /\ EmptyPlan =>
              /\ pc = "updateSiteLastSync"
              /\ visited = {} /\ requests = 0 /\ totalNewMessages = 0
              /\ \A c \in Convs : ConvState(Head(queue), c) = passStart[c]
              /\ messages' = messages /\ topics' = topics /\ streams' = streams
              /\ (queue' # queue /\ exitCode' # "killed") =>
                     \E s \in sites' : s.id = siteId /\ s.last_sync = clock
      ]_vars

\* In a second run the site has stored messages and nothing unread: the pass
\* stands before updateSiteLastSync with the timestamp of the first run.
C33_Witness ==
    /\ EmptyPlan
    /\ clock = 2
    /\ \E c \in Convs : passStart[c].ids # {} /\ passStart[c].w # NULL
    /\ \E s \in sites : s.id = siteId /\ s.last_sync = 1

(* ------------------------------- C34 ----------------------------------- *)

RECURSIVE SumCounts(_)
\* The sum of the counts of a list of topics of a summary.
SumCounts(ts) == IF ts = <<>> THEN 0 ELSE Head(ts).count + SumCounts(Tail(ts))

RECURSIVE SumTopicCounts(_)
\* The per-topic counts of a summary, summed over its streams.
SumTopicCounts(summary) ==
    IF summary = <<>> THEN 0
    ELSE SumCounts(Head(summary).topics) + SumTopicCounts(Tail(summary))

RECURSIVE SumTotalCounts(_)
\* The totalCount of the streams of a summary, summed.
SumTotalCounts(summary) ==
    IF summary = <<>> THEN 0
    ELSE Head(summary).totalCount + SumTotalCounts(Tail(summary))

\* The summary of a site adds up: every stream's totalCount is the sum of
\* its topics' counts, and the totals sum to getTotalUnreadCount, the number
\* of the site's unread rows.
SummaryAddsUp(sId) ==
    LET summary == getUnreadSummary(sId)
    IN  /\ \A k \in 1..Len(summary) :
               summary[k].totalCount = SumCounts(summary[k].topics)
        /\ SumTopicCounts(summary) = SumTotalCounts(summary)
        /\ SumTotalCounts(summary) = getTotalUnreadCount(sId)
        /\ getTotalUnreadCount(sId) = Cardinality(Markers(unread_messages, sId))

\* The conversations a drawn unread table may name: two topics in each
\* stream, in (stream id, topic name) order.
SummaryConvs ==
    << [stream_id |-> 1, topic |-> "t"], [stream_id |-> 1, topic |-> "u"],
       [stream_id |-> 2, topic |-> "t"], [stream_id |-> 2, topic |-> "u"] >>

\* getUnreadSummary on its own: the unread command of the first site stands
\* before the summary, with any unread state over SummaryConvs reconciled.
\* where[m] is the conversation message m is unread in, 0 when it is not.
InitSummary ==
    LET s0 == Head(listSites)
    IN  \E where \in [1..MaxMsgId -> 0..Len(SummaryConvs)] :
          LET ids(k) == SortedSeq({m \in 1..MaxMsgId : where[m] = k})
              entries == [k \in 1..Len(SummaryConvs) |->
                             [stream_id |-> SummaryConvs[k].stream_id,
                              topic |-> SummaryConvs[k].topic,
                              unread_message_ids |-> ids(k)]]
              unreads == SelectSeq(entries, LAMBDA e : Len(e.unread_message_ids) > 0)
          IN  /\ remote = [s \in SiteNames |-> [c \in Convs |-> {}]]
              /\ nextMsgId = MaxMsgId + 1
              /\ edited = {}
              /\ allEdited = {}
              /\ sites = {[id |-> 1, name |-> s0, last_sync |-> NULL]}
              /\ streams = {}
              /\ topics = {}
              /\ messages = {}
              /\ unread_messages = SeqRange(UnreadItems(1, unreads))
              /\ clock = MaxRuns
              /\ cmd = "unread"
              /\ pc = "display"
              /\ exitCode = "none"
              /\ queue = <<s0>>
              /\ unreadMsgs = unreads
              /\ siteId = 1
              /\ unreadTopics = <<>>
              /\ streamDbId = 0
              /\ topicDbId = 0
              /\ lastMessageId = NULL
              /\ anchor = OLDEST
              /\ allMessages = <<>>
              /\ inserted = 0
              /\ totalNewMessages = 0
              /\ prevMarkers = {}
              /\ sawPost = FALSE
              /\ prevPass = {}
              /\ requests = 0
              /\ failedAt = "none"
              /\ passStart = NoOrigin
              /\ visited = {}
              /\ resume = {}

\* The two commands, and getUnreadSummary given any unread table.
SpecSummary == (Init \/ InitSummary) /\ [][NextUnread]_vars

\* C34: getUnreadSummary is read-only (the step of the unread command that
\* computes and prints it changes no table), and for every site, in every
\* state of the store, the per-topic counts summed over the streams equal the
\* streams' totalCount summed, which equals getTotalUnreadCount and the number
\* of unread markers stored for the site.
C34_SummaryConsistency ==
    [][/\ \A s \in sites : SummaryAddsUp(s.id)
       /\ (cmd = "unread" /\ pc = "display") => UNCHANGED storeVars
      ]_vars

\* The unread command prints the summary of a site that has, in one stream,
\* two unread markers in one topic and one in another.
C34_Witness ==
    /\ cmd = "unread" /\ pc = "display"
    /\ \E k \in 1..Len(getUnreadSummary(siteId)) :
           /\ Len(getUnreadSummary(siteId)[k].topics) = 2
           /\ getUnreadSummary(siteId)[k].topics[1].count = 2
           /\ getUnreadSummary(siteId)[k].totalCount = 3
    /\ getTotalUnreadCount(siteId) = 3

(* ------------------------------- C35 ----------------------------------- *)

\* The supplied unread state lists a message identifier two times.
ListedTwice(sId, unreads) ==
    LET items == UnreadItems(sId, unreads)
    IN  \E i \in 1..Len(items), j \in 1..Len(items) :
            i < j /\ items[i].message_id = items[j].message_id

\* C35: repopulating the unread markers is all-or-nothing.  When the
\* supplied state lists a message twice, insertUnreadMessages throws: the
\* table is as it was before the call, with none of the supplied markers (the
\* site's rows were cleared just before), and the command ends with an error
\* at that call.  Otherwise every supplied marker is stored and the command
\* goes on.
C35_AllOrNothing ==
    [][(/\ cmd \in {"sync", "unread"} /\ pc = "insertUnreadMessages"
        /\ pc' # pc /\ exitCode' # "killed") =>
          IF ListedTwice(siteId, unreadMsgs)
          THEN /\ unread_messages' = unread_messages
               /\ Markers(unread_messages', siteId) = {}
               /\ cmd' = "idle" /\ exitCode' = "error"
               /\ failedAt' = "insertUnreadMessages"
          ELSE /\ Markers(unread_messages', siteId) = Supplied(unreadMsgs)
               /\ cmd' = cmd /\ exitCode' = "none"
      ]_vars

\* A command has ended with the error of insertUnreadMessages, in a run
\* after one that left markers of the same site and of another.
C35_Witness ==
    /\ cmd = "idle" /\ exitCode = "error"
    /\ failedAt = "insertUnreadMessages"
    /\ unread_messages # {}
    /\ clock = 2

(* ------------------------------- C36 ----------------------------------- *)

\* C36: sites are never removed.  Over the sync and unread commands every
\* row of the sites table stays, with its id and name; the table has at most
\* one row per site name; and getOrCreateSite returns the id of the row of
\* its site, which is the row the table had when there was one (the table is
\* then left as it was).
C36_SitesOnlyGrow ==
    [][/\ \A s \in sites : \E t \in sites' : t.id = s.id /\ t.name = s.name
       /\ (\A r1 \in sites, r2 \in sites : r1.name = r2.name => r1 = r2)'
       /\ (cmd \in {"sync", "unread"} /\ pc = "getOrCreateSite"
             /\ pc' = "clearUnreadMessages") =>
              /\ \E s \in sites' : s.name = Head(queue) /\ s.id = siteId'
              /\ \A s \in sites : s.name = Head(queue) =>
                     (sites' = sites /\ siteId' = s.id)
      ]_vars

\* The unread command has got from getOrCreateSite the row an earlier sync
\* command created and stamped, beside the row of another site.
C36_Witness ==
    /\ cmd = "unread" /\ pc = "clearUnreadMessages"
    /\ Cardinality(sites) = 2
    /\ \E s \in sites : s.id = siteId /\ s.name = Head(queue) /\ s.last_sync # NULL

====
